---- MODULE Spec2Model ----
(***************************************************************************)
(* A model of Backend/app.py, the pothole-detection service: the startup   *)
(* code of the module and the handlers predict, gen_complaint,             *)
(* generate_pdf and send_email, with the disk and the mail relay they act  *)
(* on.                                                                     *)
(*                                                                         *)
(* Strings are sequences of tokens (a token stands for a run of            *)
(* characters that the code never looks inside), so that replace,          *)
(* startswith, split and path resolution are computed as the code computes *)
(* them.  Byte strings are sequences of three-byte groups and base64 text  *)
(* is a sequence of characters, four for each group.                       *)
(*                                                                         *)
(* The service runs one event loop.  generate_pdf, gen_complaint and       *)
(* send_email hold it from their first line to their return (they never    *)
(* await), predict awaits only upload.read().  The model serves one        *)
(* request at a time: pc says where the request in flight stands, "done"   *)
(* when its response is ready, and Deliver hands the response over.        *)
(***************************************************************************)
EXTENDS Naturals, Sequences, FiniteSets, TLC

VARIABLES
    saveEnv,        \* the value of the environment variable SAVE_OUTPUTS
    pc,             \* "boot", "idle", "done", or the position of the request in flight
    req,            \* the request in flight
    response,       \* its response, once there is one
    idx,            \* predict: the position in the batch of the next image
    results_list,   \* predict: the result records appended so far
    saved,          \* predict: per image processed, which of its files reached the disk
    msg,            \* send_email: the attachments of the message built
    smtpLog,        \* send_email: the calls made on the relay, with their outcome
    transmitted,    \* send_email: the messages the relay has accepted
    diskReads,      \* send_email: the (resolved) paths of the files read
    fs,             \* the disk: resolved path -> content
    dirsCreated,    \* the directories the service has created
    writeAttempts,  \* the (resolved) paths the service has tried to write
    pdfIssued       \* generate_pdf: the responses that gave a pdf_url, oldest first

vars == <<saveEnv, pc, req, response, idx, results_list, saved, msg, smtpLog,
          transmitted, diskReads, fs, dirsCreated, writeAttempts, pdfIssued>>

(***************************************************************************)
(* Bounds of the model.                                                    *)
(***************************************************************************)
MaxBatch == 2         \* images in one predict request
MaxAttach == 2        \* entries of image_data_b64 in one send_email request
MaxUrls == 1          \* entries of image_urls in one send_email request
MaxPdfRequests == 2   \* generate_pdf responses with a pdf_url in one run

\* None/null of the code, for a field that otherwise holds a string.
NULL == <<>>

\* The sequences over S of length lo..hi.
SeqsOf(S, lo, hi) == UNION {[1..n -> S] : n \in lo..hi}

(***************************************************************************)
(* Strings.                                                                *)
(***************************************************************************)
\* str.replace(old, new) for a one-token old: every occurrence, left to right.
RECURSIVE Replace(_, _, _)
Replace(s, old, new) ==
    IF s = <<>> THEN <<>>
    ELSE (IF Head(s) = old THEN new ELSE <<Head(s)>>) \o Replace(Tail(s), old, new)

\* str.startswith(prefix) for a one-token prefix.
StartsWith(s, prefix) == s # <<>> /\ Head(s) = prefix

\* The position of the first token of s that is tok, 0 when there is none.
RECURSIVE IndexOf(_, _)
IndexOf(s, tok) ==
    IF s = <<>> THEN 0
    ELSE IF Head(s) = tok THEN 1
    ELSE LET r == IndexOf(Tail(s), tok) IN IF r = 0 THEN 0 ELSE r + 1

\* str.lower() of the values the environment variable takes here.
Lower(s) ==
    CASE s = "True" -> "true"
      [] s = "YES" -> "yes"
      [] OTHER -> s

(***************************************************************************)
(* Configuration and paths (app.py 24-41).                                 *)
(***************************************************************************)
BASE_DIR == <<"/", "base">>

\* os.path.join(a, b): b alone when b is absolute.
PathJoin(a, b) == IF StartsWith(b, "/") THEN b ELSE a \o <<"/">> \o b

FRONTEND_DIR == PathJoin(BASE_DIR, <<"frontend">>)
STATIC_DIR == PathJoin(BASE_DIR, <<"static">>)
UPLOAD_DIR == PathJoin(STATIC_DIR, <<"uploads">>)
RESULT_DIR == PathJoin(STATIC_DIR, <<"results">>)
PDF_DIR == PathJoin(STATIC_DIR, <<"pdfs">>)

\* os.getenv("SAVE_OUTPUTS", "false").lower() in ("1", "true", "yes")
SaveEnvValues == {"unset", "True", "YES", "on"}
SAVE_OUTPUTS ==
    Lower(IF saveEnv = "unset" THEN "false" ELSE saveEnv) \in {"1", "true", "yes"}

(***************************************************************************)
(* The disk.  A path string resolves, as the operating system resolves it, *)
(* to the sequence of its components, "." and empty components dropped and *)
(* ".." taking the last one away; a component is the sequence of tokens    *)
(* between two separators.                                                 *)
(***************************************************************************)
PushComponent(done, cur) ==
    IF cur = <<>> \/ cur = <<".">> THEN done
    ELSE IF cur = <<"..">>
         THEN (IF done = <<>> THEN done ELSE SubSeq(done, 1, Len(done) - 1))
         ELSE Append(done, cur)

RECURSIVE ResolveFrom(_, _, _)
ResolveFrom(s, done, cur) ==
    IF s = <<>> THEN PushComponent(done, cur)
    ELSE IF Head(s) = "/"
         THEN ResolveFrom(Tail(s), PushComponent(done, cur), <<>>)
         ELSE ResolveFrom(Tail(s), done, Append(cur, Head(s)))

Resolve(s) == ResolveFrom(s, <<>>, <<>>)

\* Whether resolved path p lies in directory d or below it.
Under(p, d) == Len(p) > Len(d) /\ SubSeq(p, 1, Len(d)) = d

\* The directory and every ancestor of it (what os.makedirs may create).
WithParents(d) == {SubSeq(d, 1, n) : n \in 1..Len(d)}

\* The files of the deployment that exist before the service starts: the
\* source file itself, the landing page, and a file in a directory beside
\* the static root whose name starts with the same characters.
AppPy == Resolve(PathJoin(BASE_DIR, <<"app.py">>))
IndexHtml == Resolve(PathJoin(FRONTEND_DIR, <<"index.html">>))
SiblingDir == Resolve(BASE_DIR \o <<"/", "static", "_old">>)
SiblingFile == Append(SiblingDir, <<"x.png">>)
InitialFiles ==
    (AppPy :> <<"SRC">>) @@ (IndexHtml :> <<"HTML">>) @@ (SiblingFile :> <<"OLD">>)
InitialDirs == WithParents(Resolve(FRONTEND_DIR)) \cup WithParents(SiblingDir)

\* The directories that exist: those of the deployment and those created.
Dirs == InitialDirs \cup dirsCreated

\* os.path.exists
Exists(p) == p \in DOMAIN fs \/ p \in Dirs

\* open(path, "wb") and write(content), by outcome: done; open refused (the
\* file is as it was); open done and the write cut short (the file is left
\* truncated).
WriteOutcomes == {"ok", "open_fails", "write_fails"}
WriteFile(f, path, content, outcome) ==
    CASE outcome = "ok" -> (Resolve(path) :> content) @@ f
      [] outcome = "open_fails" -> f
      [] outcome = "write_fails" -> (Resolve(path) :> <<>>) @@ f

\* cv2.imwrite(path, img), by outcome: written; not written and False
\* returned (a file that cannot be opened or written raises nothing);
\* cv2.error raised (no writer for the extension).
ImwriteOutcomes == {"ok", "returns_false", "raises"}
Imwrite(f, path, content, outcome) ==
    IF outcome = "ok" THEN (Resolve(path) :> content) @@ f ELSE f

(***************************************************************************)
(* Base64 and data URIs.  A token of a data URI is a literal run of        *)
(* characters or one character of base64 text: the n-th of the four that   *)
(* encode the three-byte group v.                                          *)
(***************************************************************************)
Lit(s) == [k |-> "lit", v |-> s, n |-> 0]
B64Char(g, i) == [k |-> "b64", v |-> g, n |-> i]

\* base64.b64encode
RECURSIVE B64Encode(_)
B64Encode(bytes) ==
    IF bytes = <<>> THEN <<>>
    ELSE [i \in 1..4 |-> B64Char(Head(bytes), i)] \o B64Encode(Tail(bytes))

\* The group four characters of base64 text decode to: the group they all
\* encode when they are its four characters in order, some other bytes
\* otherwise.
GroupOf(q) ==
    IF \A i \in 1..4 : q[i] = B64Char(q[1].v, i) THEN q[1].v ELSE "??"

\* base64.b64decode(text), validate=False: the characters outside the
\* alphabet are discarded, and what is left must be whole groups of four
\* (binascii.Error: Incorrect padding).
B64Decode(text) ==
    LET kept == SelectSeq(text, LAMBDA c : c.k = "b64")
    IN  IF Len(kept) % 4 # 0
        THEN [ok |-> FALSE, bytes |-> <<>>]
        ELSE [ok |-> TRUE,
              bytes |-> [j \in 1..(Len(kept) \div 4) |->
                            GroupOf(SubSeq(kept, 4 * j - 3, 4 * j))]]

(***************************************************************************)
(* Images.  An uploaded image is a filename and bytes; codec says which    *)
(* decoder reads the bytes ("cv2", "pil" for the fallback alone, "none"),  *)
(* boxes is the number of boxes the model finds in it, encodes whether     *)
(* the annotated image can be encoded to JPEG (it cannot when a side is    *)
(* longer than the format allows), jpg the JPEG bytes of the annotated     *)
(* image and out its bytes in the format of the filename's extension.      *)
(***************************************************************************)
IMG_A == [filename |-> <<"a.jpg">>, bytes |-> <<"A">>, codec |-> "cv2",
          boxes |-> 0, encodes |-> TRUE, jpg |-> <<"AJ">>, out |-> <<"AJ">>]
IMG_B == [filename |-> <<"d", "/", "b.png">>, bytes |-> <<"B">>, codec |-> "pil",
          boxes |-> 2, encodes |-> TRUE, jpg |-> <<"BJ">>, out |-> <<"BP">>]
IMG_X == [filename |-> <<"x", "/", "bad.gif">>, bytes |-> <<"X">>, codec |-> "none",
          boxes |-> 0, encodes |-> TRUE, jpg |-> <<>>, out |-> <<>>]
IMG_H == [filename |-> <<"huge.png">>, bytes |-> <<"H">>, codec |-> "cv2",
          boxes |-> 1, encodes |-> FALSE, jpg |-> <<>>, out |-> <<"HP">>]
IMG_Y == [filename |-> <<"y.jpg">>, bytes |-> <<"Y">>, codec |-> "none",
          boxes |-> 0, encodes |-> TRUE, jpg |-> <<>>, out |-> <<>>]
Images == {IMG_A, IMG_B, IMG_X, IMG_H, IMG_Y}

\* numpy_from_bytes: cv2.imdecode, then PIL when cv2 returns None, then
\* RuntimeError.
numpy_from_bytes(img) ==
    IF img.codec = "cv2" THEN [ok |-> TRUE, err |-> ""]
    ELSE IF img.codec = "pil" THEN [ok |-> TRUE, err |-> ""]
    ELSE [ok |-> FALSE, err |-> "Could not decode uploaded image"]

\* encode_image_to_data_uri(plotted, ".jpg")
encode_image_to_data_uri(img) ==
    IF ~img.encodes
    THEN [ok |-> FALSE, err |-> "Image encoding failed", uri |-> <<>>]
    ELSE [ok |-> TRUE, err |-> "",
          uri |-> <<Lit("data:"), Lit("image/jpeg"), Lit(";base64"), Lit(",")>>
                  \o B64Encode(img.jpg)]

(***************************************************************************)
(* The initial state, and startup (the module's top-level code).           *)
(***************************************************************************)
NoRequest == [kind |-> "none"]

Init ==
    /\ saveEnv \in SaveEnvValues
    /\ pc = "boot"
    /\ req = NoRequest
    /\ response = NoRequest
    /\ idx = 0
    /\ results_list = <<>>
    /\ saved = <<>>
    /\ msg = <<>>
    /\ smtpLog = <<>>
    /\ transmitted = <<>>
    /\ diskReads = {}
    /\ fs = InitialFiles
    /\ dirsCreated = {}
    /\ writeAttempts = {}
    /\ pdfIssued = <<>>

\* The response leaves the service, and nothing of the request is kept but
\* what it left on the disk.
Deliver ==
    /\ pc = "done"
    /\ pc' = "idle"
    /\ req' = NoRequest
    /\ response' = NoRequest
    /\ idx' = 0
    /\ results_list' = <<>>
    /\ saved' = <<>>
    /\ msg' = <<>>
    /\ smtpLog' = <<>>
    /\ transmitted' = <<>>
    /\ diskReads' = {}
    /\ writeAttempts' = {}
    /\ UNCHANGED <<saveEnv, fs, dirsCreated, pdfIssued>>

\* os.makedirs(UPLOAD_DIR), (RESULT_DIR), (PDF_DIR), exist_ok=True: whatever
\* SAVE_OUTPUTS says.
Startup ==
    /\ pc = "boot"
    /\ pc' = "idle"
    /\ dirsCreated' = (WithParents(Resolve(UPLOAD_DIR))
                       \cup WithParents(Resolve(RESULT_DIR))
                       \cup WithParents(Resolve(PDF_DIR))) \ InitialDirs
    /\ UNCHANGED <<saveEnv, req, response, idx, results_list, saved, msg, smtpLog,
                   transmitted, diskReads, fs, writeAttempts, pdfIssued>>

(***************************************************************************)
(* predict (app.py 108-176).                                               *)
(***************************************************************************)
\* (the filename taken as it comes)
SafeNameRaw(img) == img.filename

\* upload.filename.replace("/", "_")
SafeName(img) == Replace(img.filename, "/", <<"_">>)

UploadPath(filename) == PathJoin(UPLOAD_DIR, filename)
OutputFilename(filename) == <<"result_">> \o filename
OutputPath(filename) == PathJoin(RESULT_DIR, OutputFilename(filename))

\* (the raw upload saved whatever SAVE_OUTPUTS says)
SaveUploadAlways(f, filename, contents, outcome) ==
    WriteFile(f, UploadPath(filename), contents, outcome)

\* Lines 131-140: the raw upload saved when SAVE_OUTPUTS; a failure is
\* caught.
SaveUpload(f, filename, contents, outcome) ==
    IF SAVE_OUTPUTS THEN WriteFile(f, UploadPath(filename), contents, outcome) ELSE f

\* Lines 157-166: the annotated image saved when SAVE_OUTPUTS.
SaveResult(f, filename, plotted, outcome) ==
    IF SAVE_OUTPUTS THEN Imwrite(f, OutputPath(filename), plotted, outcome) ELSE f

\* Lines 157-166: result_url is set once cv2.imwrite has returned, whatever
\* it returned, and is None when it raised or SAVE_OUTPUTS is off.
ResultUrl(filename, outcome) ==
    IF SAVE_OUTPUTS /\ outcome # "raises"
    THEN <<"/static", "/", "results", "/">> \o OutputFilename(filename)
    ELSE NULL

\* The paths predict tries to write for one image, up to the result image
\* or (withResult false) up to the upload only.
PredictWrites(filename, withResult) ==
    IF SAVE_OUTPUTS
    THEN {Resolve(UploadPath(filename))}
         \cup (IF withResult THEN {Resolve(OutputPath(filename))} ELSE {})
    ELSE {}

Batches == SeqsOf(Images, 1, MaxBatch)

\* The request arrives: results_list = [].
PredictBegin ==
    /\ pc = "idle"
    /\ \E images \in Batches : req' = [kind |-> "predict", images |-> images]
    /\ pc' = "predict"
    /\ idx' = 1
    /\ UNCHANGED <<saveEnv, response, results_list, saved, msg, smtpLog, transmitted,
                   diskReads, fs, dirsCreated, writeAttempts, pdfIssued>>

\* (the records appended so far returned with the error)
DecodeFailedPartial(filename, err) ==
    /\ response' = [kind |-> "predict", status |-> 400,
                    body |-> [error |-> <<"Failed to decode ">> \o filename
                                        \o <<": ", err>>,
                              results |-> results_list]]
    /\ pc' = "done"
    /\ UNCHANGED <<saveEnv, req, idx, results_list, saved, msg, smtpLog, transmitted,
                   diskReads, fs, dirsCreated, writeAttempts, pdfIssued>>

\* (the files of the batch removed before the error is returned)
DecodeFailedRollback(filename, err) ==
    /\ response' = [kind |-> "predict", status |-> 400,
                    body |-> [error |-> <<"Failed to decode ">> \o filename
                                        \o <<": ", err>>]]
    /\ pc' = "done"
    /\ fs' = [p \in {q \in DOMAIN fs : ~Under(q, Resolve(STATIC_DIR))} |-> fs[p]]
    /\ UNCHANGED <<saveEnv, req, idx, results_list, saved, msg, smtpLog, transmitted,
                   diskReads, dirsCreated, writeAttempts, pdfIssued>>

\* Lines 125-128: the image does not decode, and the handler returns.
DecodeFailed(filename, err) ==
    /\ response' = [kind |-> "predict", status |-> 400,
                    body |-> [error |-> <<"Failed to decode ">> \o filename
                                        \o <<": ", err>>]]
    /\ pc' = "done"
    /\ UNCHANGED <<saveEnv, req, idx, results_list, saved, msg, smtpLog, transmitted,
                   diskReads, fs, dirsCreated, writeAttempts, pdfIssued>>

\* Lines 151-154: the annotated image does not encode, and the handler
\* returns; the upload has been saved by then.
EncodeFailed(filename, contents, err, up) ==
    /\ response' = [kind |-> "predict", status |-> 500,
                    body |-> [error |-> <<"Failed to encode result image: ", err>>]]
    /\ pc' = "done"
    /\ fs' = SaveUpload(fs, filename, contents, up)
    /\ writeAttempts' = writeAttempts \cup PredictWrites(filename, FALSE)
    /\ saved' = Append(saved, [upload |-> SAVE_OUTPUTS /\ up = "ok", result |-> FALSE])
    /\ UNCHANGED <<saveEnv, req, idx, results_list, msg, smtpLog, transmitted,
                   diskReads, dirsCreated, pdfIssued>>

\* Lines 130-174: the image is saved, annotated, encoded, saved again and
\* its record appended.
ImageDone(img, filename, data_uri, up, wr) ==
    /\ fs' = SaveResult(SaveUpload(fs, filename, img.bytes, up), filename, img.out, wr)
    /\ writeAttempts' = writeAttempts \cup PredictWrites(filename, TRUE)
    /\ saved' = Append(saved, [upload |-> SAVE_OUTPUTS /\ up = "ok",
                               result |-> SAVE_OUTPUTS /\ wr = "ok"])
    /\ results_list' = Append(results_list,
            [original_filename |-> filename,
             result_image_data_uri |-> data_uri,
             result_image_url |-> ResultUrl(filename, wr),
             count |-> img.boxes,
             detections |-> <<>>])
    /\ idx' = idx + 1
    /\ UNCHANGED <<saveEnv, pc, req, response, msg, smtpLog, transmitted, diskReads,
                   dirsCreated, pdfIssued>>

\* One turn of the loop of lines 120-174, on the image at idx.
PredictImage ==
    /\ pc = "predict"
    /\ idx <= Len(req.images)
    /\ LET img == req.images[idx]
           filename == SafeName(img)
           dec == numpy_from_bytes(img)
           enc == encode_image_to_data_uri(img)
       IN  IF ~dec.ok THEN DecodeFailed(filename, dec.err)
           ELSE \E up \in WriteOutcomes, wr \in ImwriteOutcomes :
                   IF ~enc.ok THEN EncodeFailed(filename, img.bytes, enc.err, up)
                   ELSE ImageDone(img, filename, enc.uri, up, wr)

\* Line 176: the loop is over.
PredictReturn ==
    /\ pc = "predict"
    /\ idx > Len(req.images)
    /\ response' = [kind |-> "predict", status |-> 200,
                    body |-> [results |-> results_list]]
    /\ pc' = "done"
    /\ UNCHANGED <<saveEnv, req, idx, results_list, saved, msg, smtpLog, transmitted,
                   diskReads, fs, dirsCreated, writeAttempts, pdfIssued>>

(***************************************************************************)
(* gen_complaint (app.py 192-211).  A text is the sequence of its lines, a *)
(* line the sequence of its tokens.                                        *)
(***************************************************************************)
\* str() of the counts used here.
IntStr(n) == CASE n = 0 -> "0" [] n = 1 -> "1" [] n = 2 -> "2" [] n = 3 -> "3"
               [] OTHER -> "4"

\* The fields left out of a request take the defaults of ComplaintRequest.
ComplaintMainSt ==
    [kind |-> "complaint", pothole_count |-> 3, road_name |-> "Main St", area |-> "",
     city |-> "", user_name |-> "Concerned Citizen",
     authority_name |-> "Municipal Commissioner", extra_details |-> ""]
ComplaintWest ==
    [kind |-> "complaint", pothole_count |-> 0, road_name |-> "", area |-> "West",
     city |-> "Pune", user_name |-> "R", authority_name |-> "Municipal Commissioner",
     extra_details |-> "Near the school."]
ComplaintRequests == {ComplaintMainSt, ComplaintWest}

ComplaintText(r) ==
    << <<>>,
       <<"Subject: Request for urgent pothole repair at ", r.road_name, ", ", r.area,
         ", ", r.city>>,
       <<>>,
       <<"Respected ", r.authority_name, ",">>,
       <<>>,
       <<"I would like to bring to your attention that a total of ",
         IntStr(r.pothole_count), " potholes", " ">>,
       <<"have been detected on the road at ", r.road_name, ", ", r.area, ", ", r.city,
         ". These potholes", " ">>,
       <<"pose a serious risk to commuters, especially at night.">>,
       <<>>,
       <<r.extra_details>>,
       <<>>,
       <<"I request you to kindly take immediate action and repair the road at the earliest.">>,
       <<>>,
       <<"Thank you,">>,
       <<r.user_name>>,
       <<" ", " ", " ", " ">> >>

gen_complaint ==
    /\ pc = "idle"
    /\ \E r \in ComplaintRequests :
          /\ req' = r
          /\ response' = [kind |-> "complaint", status |-> 200,
                          body |-> [complaint_text |-> ComplaintText(r)]]
    /\ pc' = "done"
    /\ UNCHANGED <<saveEnv, idx, results_list, saved, msg, smtpLog, transmitted,
                   diskReads, fs, dirsCreated, writeAttempts, pdfIssued>>

(***************************************************************************)
(* generate_pdf (app.py 221-259).                                          *)
(***************************************************************************)
\* line.rstrip()
RECURSIVE RStrip(_)
RStrip(line) ==
    IF line # <<>> /\ line[Len(line)] = " " THEN RStrip(SubSeq(line, 1, Len(line) - 1))
    ELSE line

\* Lines 229-241: the document, one text line drawn for each line of the
\* text, as bytes.
RECURSIVE DrawLines(_)
DrawLines(text) ==
    IF text = <<>> THEN <<>>
    ELSE RStrip(Head(text)) \o <<"Tj">> \o DrawLines(Tail(text))

RenderPdf(text) == <<"%PDF">> \o DrawLines(text) \o <<"%%EOF">>

\* Lines 256-257.
PdfDataUri(pdf_bytes) ==
    <<Lit("data:"), Lit("application/pdf"), Lit(";base64"), Lit(",")>>
    \o B64Encode(pdf_bytes)

\* Lines 247-248: the file every request writes.
PdfFilename == <<"complaint.pdf">>
PdfPath == PathJoin(PDF_DIR, PdfFilename)

\* (the file created only when there is none yet)
SavePdfExclusive(f, pdf_bytes, outcome) ==
    IF SAVE_OUTPUTS /\ Resolve(PdfPath) \notin DOMAIN f
    THEN WriteFile(f, PdfPath, pdf_bytes, outcome) ELSE f

\* Lines 244-254: the document saved when SAVE_OUTPUTS; a failure is caught.
SavePdf(f, pdf_bytes, outcome) ==
    IF SAVE_OUTPUTS THEN WriteFile(f, PdfPath, pdf_bytes, outcome) ELSE f

PdfUrl(outcome) ==
    IF SAVE_OUTPUTS /\ outcome = "ok"
    THEN <<"/static", "/", "pdfs", "/">> \o PdfFilename
    ELSE NULL

\* The texts a client sends: "A", "A \nB", and a letter gen_complaint wrote.
PdfTexts == { << <<"A">> >>, << <<"A", " ">>, <<"B">> >>, ComplaintText(ComplaintMainSt) }

generate_pdf ==
    /\ pc = "idle"
    /\ Len(pdfIssued) < MaxPdfRequests
    /\ \E text \in PdfTexts, outcome \in WriteOutcomes :
          LET pdf_bytes == RenderPdf(text)
              body == [pdf_url |-> PdfUrl(outcome), pdf_data_uri |-> PdfDataUri(pdf_bytes)]
          IN  /\ req' = [kind |-> "pdf", complaint_text |-> text]
              /\ fs' = SavePdf(fs, pdf_bytes, outcome)
              /\ response' = [kind |-> "pdf", status |-> 200, body |-> body]
              /\ pdfIssued' = IF body.pdf_url = NULL THEN pdfIssued
                               ELSE Append(pdfIssued, body)
    /\ writeAttempts' = IF SAVE_OUTPUTS THEN {Resolve(PdfPath)} ELSE {}
    /\ pc' = "done"
    /\ UNCHANGED <<saveEnv, idx, results_list, saved, msg, smtpLog, transmitted,
                   diskReads, dirsCreated>>

(***************************************************************************)
(* send_email (app.py 273-342).                                            *)
(***************************************************************************)
\* The data URIs a client sends: the one predict returned for IMG_A, a PNG,
\* one with no comma, one whose base64 text has lost its last character,
\* base64 text with no "data:" in front, and the empty string.
D_JPG == encode_image_to_data_uri(IMG_A).uri
D_PNG == <<Lit("data:"), Lit("image/png"), Lit(";base64"), Lit(",")>> \o B64Encode(<<"BP">>)
D_NOCOMMA == <<Lit("data:"), Lit("image/jpeg"), Lit(";base64")>>
D_BADPAD == SubSeq(D_JPG, 1, Len(D_JPG) - 1)
D_RAW == B64Encode(<<"AJ">>)
D_EMPTY == <<>>
DataUris == {D_JPG, D_PNG, D_NOCOMMA, D_BADPAD, D_RAW, D_EMPTY}

\* The paths a client sends: the PDF and a result image as the service names
\* them, and four of the client's own making.
U_PDF == <<"/static", "/", "pdfs", "/", "complaint.pdf">>
U_RESULT == <<"/static", "/", "results", "/", "result_", "a.jpg">>
U_TRAVERSE == <<"/static", "/", "..", "/", "app.py">>
U_SIBLING == <<"/static", "_old", "/", "x.png">>
U_OUTSIDE == <<"/etc", "/", "passwd">>
U_ROOT == <<"/static">>
Urls == {U_PDF, U_RESULT, U_TRAVERSE, U_SIBLING, U_OUTSIDE, U_ROOT}

\* os.getenv("SMTP_USERNAME"), os.getenv("SMTP_PASSWORD"): unset or set.
CredentialValues == {"unset", "set"}
Truthy(v) == v # "unset" /\ v # ""

EmailRequests ==
    [kind : {"email"},
     image_data_b64 : SeqsOf(DataUris, 0, MaxAttach),
     image_urls : SeqsOf(Urls, 0, MaxUrls),
     SMTP_USERNAME : CredentialValues,
     SMTP_PASSWORD : CredentialValues]

\* "png" in header
HasPng(header) == \E i \in DOMAIN header : header[i].v = "image/png"

\* Lines 301-315, from entry i on (the code counts from 0): the attachments,
\* or the exception that leaves the loop.  split(",", 1) gives one part when
\* there is no comma, and unpacking it into two names raises ValueError
\* outside the try of lines 311-315.
RECURSIVE AttachInline(_, _, _)
AttachInline(list, i, atts) ==
    IF i > Len(list) THEN [ok |-> TRUE, err |-> "", atts |-> atts]
    ELSE LET data_uri == list[i]
             comma == IndexOf(data_uri, Lit(","))
             header == SubSeq(data_uri, 1, comma - 1)
             b64data == SubSeq(data_uri, comma + 1, Len(data_uri))
             subtype == IF HasPng(header) THEN "png" ELSE "jpeg"
             dec == B64Decode(b64data)
         IN  IF data_uri = <<>> THEN AttachInline(list, i + 1, atts)
             ELSE IF ~StartsWith(data_uri, Lit("data:"))
                  THEN AttachInline(list, i + 1, atts)
             ELSE IF comma = 0
                  THEN [ok |-> FALSE,
                        err |-> "not enough values to unpack (expected 2, got 1)",
                        atts |-> atts]
             ELSE IF ~dec.ok THEN AttachInline(list, i + 1, atts)
             ELSE AttachInline(list, i + 1,
                      Append(atts, [filename |-> <<"attachment_", IntStr(i - 1), ".", subtype>>,
                                    subtype |-> subtype,
                                    data |-> dec.bytes]))

\* os.path.splitext(name)[1].lower().lstrip(".") of the file names used here.
ExtOf(name) ==
    CASE name = "complaint.pdf" -> "pdf"
      [] name = "a.jpg" -> "jpg"
      [] name = "x.png" -> "png"
      [] name = "app.py" -> "py"
      [] OTHER -> ""

\* Line 320: url.replace("/static", STATIC_DIR)
DiskPath(url) == Replace(url, "/static", STATIC_DIR)

\* Line 319: whether the entry is looked up on the disk at all.
Honoured(url) == StartsWith(url, "/static") /\ SAVE_OUTPUTS

\* Lines 322-324: whether the file of the entry is read: it exists, and it
\* opens (a directory does not, and the exception is caught).
IsRead(url) ==
    /\ Honoured(url)
    /\ Exists(Resolve(DiskPath(url)))
    /\ Resolve(DiskPath(url)) \in DOMAIN fs

\* Lines 318-329, from entry i on.
RECURSIVE AttachDisk(_, _, _)
AttachDisk(list, i, atts) ==
    IF i > Len(list) THEN atts
    ELSE LET url == list[i]
             filepath == Resolve(DiskPath(url))
             base == filepath[Len(filepath)]
             ext == ExtOf(base[Len(base)])
             subtype == IF ext \in {"jpg", "jpeg"} THEN "jpeg"
                        ELSE IF ext # "" THEN ext ELSE "octet-stream"
         IN  IF IsRead(url)
             THEN AttachDisk(list, i + 1,
                      Append(atts, [filename |-> base, subtype |-> subtype,
                                    data |-> fs[filepath]]))
             ELSE AttachDisk(list, i + 1, atts)

FilesRead(list) == {Resolve(DiskPath(list[i])) : i \in {j \in DOMAIN list : IsRead(list[j])}}

\* What the handler returns from its except clause (lines 340-342).
EmailError(err) ==
    [kind |-> "email", status |-> 200, body |-> [status |-> "error", error |-> err]]

\* Lines 281-329: the message is built.  An exception here is caught at line
\* 340 like any other.
SendEmailBuild ==
    /\ pc = "idle"
    /\ \E r \in EmailRequests :
          LET inline == AttachInline(r.image_data_b64, 1, <<>>)
          IN  /\ req' = r
              /\ IF inline.ok
                 THEN /\ msg' = AttachDisk(r.image_urls, 1, inline.atts)
                      /\ diskReads' = FilesRead(r.image_urls)
                      /\ pc' = "smtp_connect"
                      /\ response' = response
                 ELSE /\ msg' = inline.atts
                      /\ diskReads' = {}
                      /\ pc' = "done"
                      /\ response' = EmailError(inline.err)
    /\ UNCHANGED <<saveEnv, idx, results_list, saved, smtpLog, transmitted, fs,
                   dirsCreated, writeAttempts, pdfIssued>>

\* (a call on the relay made outside the try: its exception leaves the
\* handler)
SmtpCallUncaught(step, next) ==
    /\ \E ok \in BOOLEAN :
          /\ smtpLog' = Append(smtpLog, [step |-> step, ok |-> ok])
          /\ IF ok
             THEN /\ pc' = next
                  /\ response' = response
             ELSE /\ pc' = "done"
                  /\ response' = [kind |-> "fault", status |-> 500]
    /\ UNCHANGED <<saveEnv, req, idx, results_list, saved, msg, diskReads, fs,
                   dirsCreated, writeAttempts, pdfIssued>>

\* A call on the relay: it returns, and the handler goes on to next, or it
\* raises, and the handler returns the error.
SmtpCall(step, next) ==
    /\ \E ok \in BOOLEAN :
          /\ smtpLog' = Append(smtpLog, [step |-> step, ok |-> ok])
          /\ IF ok
             THEN /\ pc' = next
                  /\ response' = response
             ELSE /\ pc' = "done"
                  /\ response' = EmailError(step)
    /\ UNCHANGED <<saveEnv, req, idx, results_list, saved, msg, diskReads, fs,
                   dirsCreated, writeAttempts, pdfIssued>>

\* Line 332: smtplib.SMTP(SMTP_HOST, SMTP_PORT)
SmtpConnect ==
    /\ pc = "smtp_connect"
    /\ SmtpCall("connect", "smtp_starttls")
    /\ UNCHANGED transmitted

\* (login when either is set)
LoginConfiguredEither == Truthy(req.SMTP_USERNAME) \/ Truthy(req.SMTP_PASSWORD)

\* Line 334
LoginConfigured == Truthy(req.SMTP_USERNAME) /\ Truthy(req.SMTP_PASSWORD)

\* Lines 333-334: server.starttls()
SmtpStarttls ==
    /\ pc = "smtp_starttls"
    /\ SmtpCall("starttls", IF LoginConfigured THEN "smtp_login" ELSE "smtp_send")
    /\ UNCHANGED transmitted

\* Line 335: server.login(SMTP_USERNAME, SMTP_PASSWORD)
SmtpLogin ==
    /\ pc = "smtp_login"
    /\ SmtpCall("login", "smtp_send")
    /\ UNCHANGED transmitted

\* Line 336: server.send_message(msg)
SmtpSend ==
    /\ pc = "smtp_send"
    /\ SmtpCall("send", "smtp_quit")
    /\ transmitted' = IF pc' = "smtp_quit" THEN Append(transmitted, msg) ELSE transmitted

\* Lines 337-339: server.quit(), and the handler returns.
SmtpQuit ==
    /\ pc = "smtp_quit"
    /\ \E ok \in BOOLEAN :
          /\ smtpLog' = Append(smtpLog, [step |-> "quit", ok |-> ok])
          /\ response' = IF ok
                         THEN [kind |-> "email", status |-> 200,
                               body |-> [status |-> "sent"]]
                         ELSE EmailError("quit")
    /\ pc' = "done"
    /\ UNCHANGED <<saveEnv, req, idx, results_list, saved, msg, transmitted, diskReads,
                   fs, dirsCreated, writeAttempts, pdfIssued>>

NextPredict == Startup \/ Deliver \/ PredictBegin \/ PredictImage \/ PredictReturn

SpecPredict == Init /\ [][NextPredict]_vars

NextPdf == Startup \/ Deliver \/ gen_complaint \/ generate_pdf
SpecPdf == Init /\ [][NextPdf]_vars

NextSmtp == Startup \/ Deliver \/ SendEmailBuild \/ SmtpConnect \/ SmtpStarttls
            \/ SmtpLogin \/ SmtpSend \/ SmtpQuit
SpecSmtp == Init /\ [][NextSmtp]_vars

NextEmail == Startup \/ Deliver \/ generate_pdf \/ SendEmailBuild \/ SmtpConnect
             \/ SmtpStarttls \/ SmtpLogin \/ SmtpSend \/ SmtpQuit
SpecEmail == Init /\ [][NextEmail]_vars

Next == Startup \/ Deliver \/ PredictBegin \/ PredictImage \/ PredictReturn \/ gen_complaint
        \/ generate_pdf \/ SendEmailBuild \/ SmtpConnect \/ SmtpStarttls \/ SmtpLogin
        \/ SmtpSend \/ SmtpQuit
Spec == Init /\ [][Next]_vars

\* The service started with the persistence toggle off.
InitOff == Init /\ ~SAVE_OUTPUTS
SpecOff == InitOff /\ [][Next]_vars

(***************************************************************************)
(* The properties.                                                         *)
(***************************************************************************)
PredictDone == pc = "done" /\ req.kind = "predict"
EmailDone == pc = "done" /\ req.kind = "email"

\* name is orig with each "/" turned into "_" and nothing else changed.
IsSanitised(name, orig) ==
    /\ Len(name) = Len(orig)
    /\ \A j \in DOMAIN orig : name[j] = (IF orig[j] = "/" THEN "_" ELSE orig[j])

Decodes(img) == img.codec # "none"
AllValid(images) == \A i \in DOMAIN images : Decodes(images[i]) /\ images[i].encodes

\* The error message names the file whose sanitised name is that of orig.
NamesFile(error, orig) ==
    /\ Len(error) >= 1 + Len(orig)
    /\ IsSanitised(SubSeq(error, 2, 1 + Len(orig)), orig)

\* C1: when every image of a predict batch decodes and encodes, the response
\* holds one record for each image, in the order submitted, the i-th with
\* the sanitised filename and the count (a natural number) of the i-th
\* image, whatever SAVE_OUTPUTS is and whatever the disk writes did.
C1_OneRecordPerImage ==
    (PredictDone /\ AllValid(req.images)) =>
        /\ response.kind = "predict"
        /\ response.status = 200
        /\ DOMAIN response.body = {"results"}
        /\ Len(response.body.results) = Len(req.images)
        /\ \A i \in DOMAIN req.images :
              /\ IsSanitised(response.body.results[i].original_filename,
                             req.images[i].filename)
              /\ response.body.results[i].count \in Nat
              /\ response.body.results[i].count = req.images[i].boxes

\* A batch of two valid images, one with "/" in its name, served with
\* persistence on and a failed write of an upload.
C1_Witness ==
    /\ PredictDone /\ AllValid(req.images) /\ SAVE_OUTPUTS
    /\ Len(req.images) = 2
    /\ \E i \in DOMAIN req.images : req.images[i].filename # SafeName(req.images[i])
    /\ \E i \in DOMAIN saved : ~saved[i].upload
    /\ Len(response.body.results) = 2

\* C2 as claimed: whenever some image of the batch, at any position, does
\* not decode, the response is the 400 error naming that image, with no
\* result records.
C2_Original ==
    PredictDone =>
        \A k \in DOMAIN req.images :
            ~Decodes(req.images[k]) =>
                /\ response.status = 400
                /\ DOMAIN response.body = {"error"}
                /\ NamesFile(response.body.error, req.images[k].filename)

\* C2: when image k is the first of the batch that does not decode and
\* every image before it encodes, the response is the 400 error naming the
\* sanitised filename of image k, with no result records.
C2_FirstUndecodable ==
    PredictDone =>
        \A k \in DOMAIN req.images :
            (/\ ~Decodes(req.images[k])
             /\ \A j \in 1..(k - 1) : Decodes(req.images[j]) /\ req.images[j].encodes) =>
                /\ response.status = 400
                /\ DOMAIN response.body = {"error"}
                /\ NamesFile(response.body.error, req.images[k].filename)

\* A batch whose second image does not decode, its first processed and
\* appended before.
C2_Witness ==
    /\ PredictDone
    /\ Len(req.images) = 2
    /\ Decodes(req.images[1]) /\ ~Decodes(req.images[2])
    /\ Len(results_list) = 1
    /\ response.status = 400

\* The URLs of the responses and of the records under way are all null.
UrlsNull ==
    /\ \A i \in DOMAIN results_list : results_list[i].result_image_url = NULL
    /\ (response.kind = "predict" /\ response.status = 200) =>
          \A i \in DOMAIN response.body.results :
              response.body.results[i].result_image_url = NULL
    /\ response.kind = "pdf" => response.body.pdf_url = NULL

\* C3 as claimed: with SAVE_OUTPUTS off every URL is null, no write is
\* attempted, no file is created and no directory is created.
C3_Original ==
    ~SAVE_OUTPUTS =>
        /\ UrlsNull
        /\ writeAttempts = {}
        /\ fs = InitialFiles
        /\ dirsCreated = {}

StartupDirs ==
    {Resolve(STATIC_DIR), Resolve(UPLOAD_DIR), Resolve(RESULT_DIR), Resolve(PDF_DIR)}

\* C3: with SAVE_OUTPUTS off every URL is null, no handler attempts a write
\* and no file is created; the directories of uploads, results and PDFs
\* (and the static root above them) are created at startup all the same,
\* and no other.
C3_NoFileWritten ==
    ~SAVE_OUTPUTS =>
        /\ UrlsNull
        /\ writeAttempts = {}
        /\ fs = InitialFiles
        /\ dirsCreated \subseteq StartupDirs
        /\ pc # "boot" => dirsCreated = StartupDirs

\* A predict batch served in full with SAVE_OUTPUTS off.
C3_Witness ==
    /\ ~SAVE_OUTPUTS
    /\ PredictDone
    /\ response.status = 200
    /\ Len(response.body.results) = 2
    /\ dirsCreated # {}

\* The entries of image_data_b64 that are well formed.
WellFormed(d) == d \in {D_JPG, D_PNG}
NoRelayFailure == \A i \in DOMAIN smtpLog : smtpLog[i].ok
InlineAttachments(m) == SelectSeq(m, LAMBDA a : a.filename[1] = "attachment_")

\* C4: a send_email request with an entry of image_data_b64 that is not
\* well formed, on a relay that refuses nothing, ends with status "sent",
\* the message transmitted with one attachment for each well-formed entry.
C4_InvalidEntrySkipped ==
    (/\ EmailDone
     /\ \E i \in DOMAIN req.image_data_b64 : ~WellFormed(req.image_data_b64[i])
     /\ NoRelayFailure) =>
        /\ response.body.status = "sent"
        /\ Len(transmitted) = 1
        /\ Len(InlineAttachments(transmitted[1]))
             = Cardinality({i \in DOMAIN req.image_data_b64 :
                               WellFormed(req.image_data_b64[i])})

Steps(log) == [i \in DOMAIN log |-> log[i].step]

\* C5: a send_email request always ends with the handler's own response:
\* status "error" with the message of the call that failed when a call on
\* the relay failed, and status "sent" only when connect, starttls, login
\* (if made), send and quit all returned.
C5_FailuresReported ==
    EmailDone =>
        /\ response.kind = "email"
        /\ response.status = 200
        /\ response.body.status \in {"sent", "error"}
        /\ ~NoRelayFailure =>
              /\ response.body.status = "error"
              /\ response.body.error = smtpLog[Len(smtpLog)].step
        /\ response.body.status = "sent" =>
              /\ NoRelayFailure
              /\ {"connect", "starttls", "send", "quit"} \subseteq
                     {smtpLog[i].step : i \in DOMAIN smtpLog}

\* The relay cannot be reached.
C5_Witness ==
    /\ EmailDone
    /\ smtpLog = <<[step |-> "connect", ok |-> FALSE]>>
    /\ response.body.status = "error"

\* C6: every file send_email reads lies under STATIC_DIR, and none is read
\* with SAVE_OUTPUTS off.
C6_ReadsConfined ==
    /\ diskReads # {} => SAVE_OUTPUTS
    /\ \A p \in diskReads : Under(p, Resolve(STATIC_DIR))

\* C7: with SAVE_OUTPUTS on, a batch of valid images gets its full response
\* whatever the disk writes did, and the record of an image whose result
\* file was not written has a null result_image_url; a generate_pdf
\* response whose file was not written has a null pdf_url.
C7_FailedWriteGivesNullUrl ==
    /\ (SAVE_OUTPUTS /\ PredictDone /\ AllValid(req.images)) =>
          /\ response.status = 200
          /\ Len(response.body.results) = Len(req.images)
          /\ \A i \in DOMAIN req.images :
                ~saved[i].result => response.body.results[i].result_image_url = NULL
    /\ (SAVE_OUTPUTS /\ pc = "done" /\ req.kind = "pdf"
            /\ (Resolve(PdfPath) \notin DOMAIN fs
                \/ fs[Resolve(PdfPath)] # RenderPdf(req.complaint_text))) =>
          response.body.pdf_url = NULL

FixedPdfUrl == <<"/static", "/", "pdfs", "/", "complaint.pdf">>

\* C8: with SAVE_OUTPUTS on, every pdf_url given is the same one, and the
\* file it names holds the document of the last response that gave it (or
\* what a later failed write left of the file), never that of an earlier
\* one because it was earlier.
C8_LastWriterWins ==
    SAVE_OUTPUTS =>
        /\ \A i \in DOMAIN pdfIssued : pdfIssued[i].pdf_url = FixedPdfUrl
        /\ pdfIssued # <<>> =>
              /\ Resolve(DiskPath(FixedPdfUrl)) \in DOMAIN fs
              /\ PdfDataUri(fs[Resolve(DiskPath(FixedPdfUrl))])
                    \in {pdfIssued[Len(pdfIssued)].pdf_data_uri, PdfDataUri(<<>>)}

\* Two responses gave the pdf_url for different documents, and the file
\* holds the second: the first response's pdf_url names another document
\* than its pdf_data_uri.
C8_Witness ==
    /\ SAVE_OUTPUTS
    /\ Len(pdfIssued) = 2
    /\ pdfIssued[1].pdf_url = pdfIssued[2].pdf_url
    /\ pdfIssued[1].pdf_data_uri # pdfIssued[2].pdf_data_uri
    /\ PdfDataUri(fs[Resolve(DiskPath(FixedPdfUrl))]) = pdfIssued[2].pdf_data_uri

IsPrefix(s, t) == Len(s) <= Len(t) /\ SubSeq(t, 1, Len(s)) = s
BothCredentials == req.SMTP_USERNAME = "set" /\ req.SMTP_PASSWORD = "set"

\* C9: the calls on the relay are, in this order and each at most once,
\* connect, starttls, login exactly when both credentials are set, send and
\* quit; a call is made only when every call before it returned, so no
\* message is sent unless starttls (and login, if due) returned, and no call
\* is made again.
C9_TransmissionOrder ==
    req.kind = "email" =>
        /\ IsPrefix(Steps(smtpLog),
                    IF BothCredentials
                    THEN <<"connect", "starttls", "login", "send", "quit">>
                    ELSE <<"connect", "starttls", "send", "quit">>)
        /\ \A i \in 1..(Len(smtpLog) - 1) : smtpLog[i].ok
        /\ transmitted # <<>> =>
              \E i \in DOMAIN smtpLog : smtpLog[i] = [step |-> "send", ok |-> TRUE]
        /\ (pc = "done" /\ response.body.status = "sent") => Len(transmitted) = 1

\* A message sent after login, all five calls returned.
C9_Witness ==
    /\ EmailDone
    /\ BothCredentials
    /\ Len(smtpLog) = 5
    /\ NoRelayFailure
    /\ Len(transmitted) = 1

\* The step of predict that returns the 400 error.
AbortStep == pc = "predict" /\ response'.kind = "predict" /\ response'.status = 400

\* C10: the step by which predict gives up a batch at image k writes
\* nothing and removes nothing; the files written for the images before k
\* are there when the response, which has no records, is returned, and the
\* loop has gone no further than k.
C10_AbortKeepsEarlierFiles ==
    /\ [][AbortStep =>
            /\ fs' = fs
            /\ writeAttempts' = writeAttempts
            /\ DOMAIN response'.body = {"error"}]_vars
    /\ [](PredictDone /\ response.status = 400 =>
            /\ idx \in DOMAIN req.images
            /\ ~Decodes(req.images[idx])
            /\ Len(saved) = idx - 1
            /\ \A i \in 1..(idx - 1) :
                  /\ saved[i].upload =>
                        Resolve(UploadPath(SafeName(req.images[i]))) \in DOMAIN fs
                  /\ saved[i].result =>
                        Resolve(OutputPath(SafeName(req.images[i]))) \in DOMAIN fs)

\* A batch given up at its second image, both files of the first on disk.
C10_Witness ==
    /\ SAVE_OUTPUTS
    /\ PredictDone /\ response.status = 400
    /\ idx = 2
    /\ saved[1].upload /\ saved[1].result
    /\ Resolve(UploadPath(SafeName(req.images[1]))) \in DOMAIN fs
    /\ Resolve(OutputPath(SafeName(req.images[1]))) \in DOMAIN fs

====
